---- MODULE Spec2Model ----
(***************************************************************************)
(* Model of the Synacor virtual machine of src/src/lib.rs and of the main  *)
(* program of src/src/main.rs: new(), load_program(), then the             *)
(* fetch/dispatch loop of execute_program(), one loop iteration per step   *)
(* (an `in` that has to read is two steps: the fetches, then the read of   *)
(* one byte, which blocks in between), then the println! of the result.    *)
(*                                                                         *)
(* A u16 is a number in 0..65535.  The memory [u16; 32768] is kept as the  *)
(* function of its non-zero cells (a cell outside the domain holds 0), so  *)
(* that a state does not carry 32768 zeros; Mem and Store read and write   *)
(* it.  A Rust panic (out-of-range index, panic!, remainder by zero)       *)
(* aborts the process: pc = "panicked" and panic holds the message.        *)
(***************************************************************************)
EXTENDS Integers, Sequences, FiniteSets, TLC

VARIABLES
    memory,               \* VirtualMachine.memory, non-zero cells only
    registers,            \* VirtualMachine.registers
    stack,                \* VirtualMachine.stack, top of the stack last
    instruction_pointer,  \* VirtualMachine.instruction_pointer
    stdin,                \* bytes of standard input typed and not yet read
    stdin_closed,         \* standard input is at end-of-stream after them
    stdout,               \* bytes written to standard output so far
    pc,                   \* "new", "running", "reading" (inside read_exact),
                          \* "returned" or "panicked"
    read_a,               \* the local `a` of read() while pc = "reading"
    printed,              \* main has printed the result
    result,               \* the local `result` of execute_program
    panic,                \* message of the panic that aborted the process
    prev,                 \* the machine as it was before the last iteration
    written,              \* history: the value wmem last wrote to each address
    steps                 \* number of loop iterations executed

vars == <<memory, registers, stack, instruction_pointer, stdin, stdin_closed,
          stdout, pc, read_a, printed, result, panic, prev, written, steps>>

-----------------------------------------------------------------------------
(* Program constants *)

MODULO == 32768
MemorySize == 32768
NumRegisters == 8
MaxValue == 32767
MaxRegisterWord == 32775
U16 == 65536
NotMask == 32767
ByteRange == 256

(* Bounds of the model: the loop iterations of a run that are followed,    *)
(* and the bytes typed ahead on standard input.                            *)

MaxSteps == 5
MaxStdin == 2

-----------------------------------------------------------------------------
(* Outcomes *)

Ok == "Ok(())"
ErrHalt == "Halting execution."
ErrInvalidOpcode == "Invalid opcode."
ErrWriteToValue == "Trying to write to a value!"
ErrEmptyStack == "Reading from an empty stack!"
ErrInput == "failed to fill whole buffer"
NoPanic == ""
PanicInvalidInstruction == "Invalid instruction."
PanicIndex == "index out of bounds"
PanicRemZero == "attempt to calculate the remainder with a divisor of zero"

-----------------------------------------------------------------------------
(* Bitwise operators on u16, computed bit by bit from the low bit up; a    *)
(* zero operand ends the computation, the remaining bits being known.     *)

RECURSIVE BitXor(_, _)
BitXor(a, b) ==
    IF a = 0 THEN b
    ELSE IF b = 0 THEN a
    ELSE (IF a % 2 = b % 2 THEN 0 ELSE 1) + 2 * BitXor(a \div 2, b \div 2)

RECURSIVE BitAnd(_, _)
BitAnd(a, b) ==
    IF a = 0 \/ b = 0 THEN 0
    ELSE (IF a % 2 = 1 /\ b % 2 = 1 THEN 1 ELSE 0)
         + 2 * BitAnd(a \div 2, b \div 2)

RECURSIVE BitOr(_, _)
BitOr(a, b) ==
    IF a = 0 THEN b
    ELSE IF b = 0 THEN a
    ELSE (IF a % 2 = 1 \/ b % 2 = 1 THEN 1 ELSE 0)
         + 2 * BitOr(a \div 2, b \div 2)

-----------------------------------------------------------------------------
(* The memory array *)

Mem(m, a) == IF a \in DOMAIN m THEN m[a] ELSE 0

Store(m, a, v) ==
    IF v = 0
    THEN [i \in DOMAIN m \ {a} |-> m[i]]
    ELSE [i \in DOMAIN m \cup {a} |-> IF i = a THEN v ELSE m[i]]

(* The machine as a record, as the handlers receive it (&mut self, with    *)
(* the two standard streams they use).                                     *)
Machine ==
    [memory |-> memory, registers |-> registers, stack |-> stack,
     instruction_pointer |-> instruction_pointer,
     stdin |-> stdin, stdout |-> stdout]

(* VirtualMachine::new *)
new ==
    [memory |-> [i \in {} |-> 0], registers |-> [i \in 0..(NumRegisters - 1) |-> 0],
     stack |-> <<>>, instruction_pointer |-> 0]

-----------------------------------------------------------------------------
(* load_program: the file's bytes, two by two, little endian.  The result  *)
(* is the memory and the panic the loading ended with, if any: a last      *)
(* chunk of one byte (v[1]) or a chunk beyond the memory (memory[i]).      *)

Chunk(buffer, i) == BitXor(buffer[2 * i + 1], buffer[2 * i + 2] * ByteRange)

RECURSIVE LoadChunks(_, _, _, _)
LoadChunks(m, buffer, i, n) ==
    IF i = n THEN m
    ELSE LoadChunks(Store(m, i, Chunk(buffer, i)), buffer, i + 1, n)

load_program(buffer) ==
    LET n == Len(buffer) \div 2
        full == IF n > MemorySize THEN MemorySize ELSE n
    IN  [memory |-> LoadChunks(new.memory, buffer, 0, full),
         panic |-> IF n > MemorySize \/ Len(buffer) % 2 = 1
                   THEN PanicIndex ELSE NoPanic]

-----------------------------------------------------------------------------
(* println!("{:?}", result) of main: the Debug form of Result<(), String>. *)
(* Utf8 gives the bytes of a message (a TLA+ string is no sequence);       *)
(* escape_debug is the escaping Debug applies to a str of ASCII            *)
(* characters (0..127).                                                    *)
Utf8(s) ==
    CASE s = ErrHalt -> <<72, 97, 108, 116, 105, 110, 103, 32, 101, 120, 101, 99, 117, 116, 105, 111, 110, 46>>
      [] s = ErrInvalidOpcode -> <<73, 110, 118, 97, 108, 105, 100, 32, 111, 112, 99, 111, 100, 101, 46>>
      [] s = ErrWriteToValue -> <<84, 114, 121, 105, 110, 103, 32, 116, 111, 32, 119, 114, 105, 116, 101, 32, 116, 111, 32, 97, 32, 118, 97, 108, 117, 101, 33>>
      [] s = ErrEmptyStack -> <<82, 101, 97, 100, 105, 110, 103, 32, 102, 114, 111, 109, 32, 97, 110, 32, 101, 109, 112, 116, 121, 32, 115, 116, 97, 99, 107, 33>>
      [] s = ErrInput -> <<102, 97, 105, 108, 101, 100, 32, 116, 111, 32, 102, 105, 108, 108, 32, 119, 104, 111, 108, 101, 32, 98, 117, 102, 102, 101, 114>>

(* One ASCII character as Debug writes it inside a str: the quote and the  *)
(* backslash behind a backslash, \t \n \r \0, every other control          *)
(* character as \u{h} with its lower-case hexadecimal digits, and any      *)
(* other character as it is.                                               *)
HexDigit(d) == IF d < 10 THEN 48 + d ELSE 87 + d
HexDigits(c) ==
    IF c < 16 THEN <<HexDigit(c)>>
    ELSE <<HexDigit(c \div 16), HexDigit(c % 16)>>
escape_char(c) ==
    CASE c \in {34, 92} -> <<92, c>>
      [] c = 0 -> <<92, 48>>
      [] c = 9 -> <<92, 116>>
      [] c = 10 -> <<92, 110>>
      [] c = 13 -> <<92, 114>>
      [] c < 32 /\ c \notin {0, 9, 10, 13} -> <<92, 117, 123>> \o HexDigits(c) \o <<125>>
      [] c = 127 -> <<92, 117, 123>> \o HexDigits(c) \o <<125>>
      [] OTHER -> <<c>>

RECURSIVE escape_debug(_)
escape_debug(bytes) ==
    IF bytes = <<>> THEN <<>>
    ELSE escape_char(Head(bytes)) \o escape_debug(Tail(bytes))

(* "Ok(())" or "Err(" message in double quotes ")" *)
DebugResult(r) ==
    IF r = Ok THEN <<79, 107, 40, 40, 41, 41>>
    ELSE <<69, 114, 114, 40, 34>> \o escape_debug(Utf8(r)) \o <<34, 41>>

println(bytes) == bytes \o <<10>>

-----------------------------------------------------------------------------
(* read_instruction: the word at the instruction pointer, decoded.  The    *)
(* index is checked first, then the pointer advances, then the word is     *)
(* classified.                                                             *)

(* Mutant: a register word classified as a literal. *)
Decode_RegisterAsValue(w) ==
    IF w <= MaxValue THEN [tag |-> "Value", x |-> w]
    ELSE IF w <= MaxRegisterWord THEN [tag |-> "Value", x |-> w % 32768]
    ELSE [tag |-> "panic", x |-> w]

Decode(w) ==
    IF w <= MaxValue THEN [tag |-> "Value", x |-> w]
    ELSE IF w <= MaxRegisterWord THEN [tag |-> "Register", x |-> w % 32768]
    ELSE [tag |-> "panic", x |-> w]

read_instruction(vm) ==
    IF vm.instruction_pointer >= MemorySize
    THEN [tag |-> "panic", x |-> 0, msg |-> PanicIndex, vm |-> vm]
    ELSE LET w == Mem(vm.memory, vm.instruction_pointer)
             d == Decode(w)
             next == [vm EXCEPT !.instruction_pointer = @ + 1]
         IN  [tag |-> d.tag, x |-> d.x,
              msg |-> IF d.tag = "panic" THEN PanicInvalidInstruction
                      ELSE NoPanic,
              vm |-> next]

(* `Register(x) => self.registers[x as usize], Value(x) => x` *)
Resolve(i) == IF i.tag = "Register" THEN i.vm.registers[i.x] ELSE i.x

(* What a handler hands back: the machine, the Result it returns and the   *)
(* panic that aborted it, if any.                                          *)
Return(vm, r) == [vm |-> vm, result |-> r, panic |-> NoPanic]
Panicked(vm, msg) == [vm |-> vm, result |-> Ok, panic |-> msg]

-----------------------------------------------------------------------------
(* The opcode handlers.  Each is entered after the opcode word was fetched *)
(* and fetches its own operands; a fetch that panics aborts the handler.   *)

(* 0 *)
halt(vm) == Return(vm, ErrHalt)

(* 1: set register a to b *)
set(vm) ==
    LET a == read_instruction(vm) IN
    IF a.tag = "panic" THEN Panicked(a.vm, a.msg)
    ELSE IF a.tag = "Value" THEN Return(a.vm, ErrWriteToValue)
    ELSE LET b == read_instruction(a.vm) IN
         IF b.tag = "panic" THEN Panicked(b.vm, b.msg)
         ELSE Return([b.vm EXCEPT !.registers[a.x] = Resolve(b)], Ok)

(* Mutant: the value is inserted at the bottom of the stack. *)
push_Front(vm) ==
    LET a == read_instruction(vm) IN
    IF a.tag = "panic" THEN Panicked(a.vm, a.msg)
    ELSE Return([a.vm EXCEPT !.stack = <<Resolve(a)>> \o @], Ok)

(* 2: push a *)
push(vm) ==
    LET a == read_instruction(vm) IN
    IF a.tag = "panic" THEN Panicked(a.vm, a.msg)
    ELSE Return([a.vm EXCEPT !.stack = Append(@, Resolve(a))], Ok)

(* Mutant: an empty stack yields 0 instead of an error. *)
pop_DefaultOnEmpty(vm) ==
    LET a == read_instruction(vm) IN
    IF a.tag = "panic" THEN Panicked(a.vm, a.msg)
    ELSE IF a.tag = "Value" THEN Return(a.vm, ErrWriteToValue)
    ELSE IF a.vm.stack = <<>>
         THEN Return([a.vm EXCEPT !.registers[a.x] = 0], Ok)
    ELSE LET n == Len(a.vm.stack) IN
         Return([a.vm EXCEPT !.stack = SubSeq(@, 1, n - 1),
                             !.registers[a.x] = a.vm.stack[n]], Ok)

(* Mutant: the stack is popped before the destination is checked. *)
pop_PopsFirst(vm) ==
    LET a == read_instruction(vm) IN
    IF a.tag = "panic" THEN Panicked(a.vm, a.msg)
    ELSE IF a.vm.stack = <<>> THEN Return(a.vm, ErrEmptyStack)
    ELSE LET n == Len(a.vm.stack)
             popped == [a.vm EXCEPT !.stack = SubSeq(@, 1, n - 1)]
         IN  IF a.tag = "Value" THEN Return(popped, ErrWriteToValue)
             ELSE Return([popped EXCEPT !.registers[a.x] = a.vm.stack[n]],
                         Ok)

(* 3: pop into register a *)
pop(vm) ==
    LET a == read_instruction(vm) IN
    IF a.tag = "panic" THEN Panicked(a.vm, a.msg)
    ELSE IF a.tag = "Value" THEN Return(a.vm, ErrWriteToValue)
    ELSE IF a.vm.stack = <<>> THEN Return(a.vm, ErrEmptyStack)
    ELSE LET n == Len(a.vm.stack) IN
         Return([a.vm EXCEPT !.stack = SubSeq(@, 1, n - 1),
                             !.registers[a.x] = a.vm.stack[n]], Ok)

(* The operand fetches shared by eq, gt, add, mult, and, or: a register a, *)
(* then b and c resolved.  `early` is what the handler returns before it   *)
(* computes anything (a panic, or a literal in the place of a).            *)
Operands(vm) ==
    LET a == read_instruction(vm) IN
    IF a.tag = "panic" THEN [early |-> Panicked(a.vm, a.msg)]
    ELSE IF a.tag = "Value" THEN [early |-> Return(a.vm, ErrWriteToValue)]
    ELSE LET b == read_instruction(a.vm) IN
         IF b.tag = "panic" THEN [early |-> Panicked(b.vm, b.msg)]
         ELSE LET c == read_instruction(b.vm) IN
              IF c.tag = "panic" THEN [early |-> Panicked(c.vm, c.msg)]
              ELSE [a |-> a.x, b |-> Resolve(b), c |-> Resolve(c),
                    vm |-> c.vm]

Fetched3(o) == "early" \notin DOMAIN o

(* 4, 5 *)
EqValue(b, c) == IF b = c THEN 1 ELSE 0
GtValue(b, c) == IF b > c THEN 1 ELSE 0
eq(vm) ==
    LET o == Operands(vm) IN
    IF ~Fetched3(o) THEN o.early
    ELSE Return([o.vm EXCEPT !.registers[o.a] = EqValue(o.b, o.c)], Ok)
gt(vm) ==
    LET o == Operands(vm) IN
    IF ~Fetched3(o) THEN o.early
    ELSE Return([o.vm EXCEPT !.registers[o.a] = GtValue(o.b, o.c)], Ok)

(* `self.instruction_pointer = target` *)
jump_to(vm, target) == [vm EXCEPT !.instruction_pointer = target]

(* 6 *)
jmp(vm) ==
    LET a == read_instruction(vm) IN
    IF a.tag = "panic" THEN Panicked(a.vm, a.msg)
    ELSE Return(jump_to(a.vm, Resolve(a)), Ok)

(* Mutant: jt jumps on zero, as jf does. *)
jt_Inverted(vm) ==
    LET a == read_instruction(vm) IN
    IF a.tag = "panic" THEN Panicked(a.vm, a.msg)
    ELSE LET b == read_instruction(a.vm) IN
         IF b.tag = "panic" THEN Panicked(b.vm, b.msg)
         ELSE IF Resolve(a) = 0 THEN Return(jump_to(b.vm, Resolve(b)), Ok)
         ELSE Return(b.vm, Ok)

(* 7 *)
jt(vm) ==
    LET a == read_instruction(vm) IN
    IF a.tag = "panic" THEN Panicked(a.vm, a.msg)
    ELSE LET b == read_instruction(a.vm) IN
         IF b.tag = "panic" THEN Panicked(b.vm, b.msg)
         ELSE IF Resolve(a) = 0 THEN Return(b.vm, Ok)
         ELSE Return(jump_to(b.vm, Resolve(b)), Ok)

(* 8 *)
jf(vm) ==
    LET a == read_instruction(vm) IN
    IF a.tag = "panic" THEN Panicked(a.vm, a.msg)
    ELSE LET b == read_instruction(a.vm) IN
         IF b.tag = "panic" THEN Panicked(b.vm, b.msg)
         ELSE IF Resolve(a) = 0 THEN Return(jump_to(b.vm, Resolve(b)), Ok)
         ELSE Return(b.vm, Ok)

(* 9, 10: wrapping u16 arithmetic, then % MODULO.  The product is taken   *)
(* byte by byte of b, so that no intermediate value leaves 32 bits.        *)
wrapping_add(b, c) == (b + c) % U16
wrapping_mul(b, c) ==
    ((((b % ByteRange) * c) % U16)
     + ((((b \div ByteRange) * c) % ByteRange) * ByteRange)) % U16
(* Mutants: the reduction modulo 32768 left out. *)
AddValue_NoModulo(b, c) == wrapping_add(b, c)
MultValue_NoModulo(b, c) == wrapping_mul(b, c)

AddValue(b, c) == wrapping_add(b, c) % MODULO
MultValue(b, c) == wrapping_mul(b, c) % MODULO
add(vm) ==
    LET o == Operands(vm) IN
    IF ~Fetched3(o) THEN o.early
    ELSE Return([o.vm EXCEPT !.registers[o.a] = AddValue(o.b, o.c)], Ok)
mult(vm) ==
    LET o == Operands(vm) IN
    IF ~Fetched3(o) THEN o.early
    ELSE Return([o.vm EXCEPT !.registers[o.a] = MultValue(o.b, o.c)], Ok)

(* 11: wrapping_rem panics on a zero divisor *)
rem(vm) ==
    LET o == Operands(vm) IN
    IF ~Fetched3(o) THEN o.early
    ELSE IF o.c = 0 THEN Panicked(o.vm, PanicRemZero)
    ELSE Return([o.vm EXCEPT !.registers[o.a] = o.b % o.c], Ok)

(* 12, 13 *)
and(vm) ==
    LET o == Operands(vm) IN
    IF ~Fetched3(o) THEN o.early
    ELSE Return([o.vm EXCEPT !.registers[o.a] = BitAnd(o.b, o.c)], Ok)
or(vm) ==
    LET o == Operands(vm) IN
    IF ~Fetched3(o) THEN o.early
    ELSE Return([o.vm EXCEPT !.registers[o.a] = BitOr(o.b, o.c)], Ok)

(* 14: b ^ 32767 *)
(* Mutant: all 16 bits inverted. *)
NotValue_AllBits(b) == BitXor(b, U16 - 1)

(* Mutant: a source register is complemented in place. *)
not_InPlace(vm) ==
    LET a == read_instruction(vm) IN
    IF a.tag = "panic" THEN Panicked(a.vm, a.msg)
    ELSE IF a.tag = "Value" THEN Return(a.vm, ErrWriteToValue)
    ELSE LET b == read_instruction(a.vm) IN
         IF b.tag = "panic" THEN Panicked(b.vm, b.msg)
         ELSE LET d == IF b.tag = "Register" THEN b.x ELSE a.x IN
              Return([b.vm EXCEPT !.registers[d] = BitXor(Resolve(b), NotMask)],
                     Ok)

NotValue(b) == BitXor(b, NotMask)
not(vm) ==
    LET a == read_instruction(vm) IN
    IF a.tag = "panic" THEN Panicked(a.vm, a.msg)
    ELSE IF a.tag = "Value" THEN Return(a.vm, ErrWriteToValue)
    ELSE LET b == read_instruction(a.vm) IN
         IF b.tag = "panic" THEN Panicked(b.vm, b.msg)
         ELSE Return([b.vm EXCEPT !.registers[a.x] = NotValue(Resolve(b))],
                     Ok)

(* Mutant: rmem classifies the word it reads, as a fetch does. *)
rmem_Validates(vm) ==
    LET a == read_instruction(vm) IN
    IF a.tag = "panic" THEN Panicked(a.vm, a.msg)
    ELSE IF a.tag = "Value" THEN Return(a.vm, ErrWriteToValue)
    ELSE LET b == read_instruction(a.vm) IN
         IF b.tag = "panic" THEN Panicked(b.vm, b.msg)
         ELSE IF Resolve(b) >= MemorySize THEN Panicked(b.vm, PanicIndex)
         ELSE IF Mem(b.vm.memory, Resolve(b)) > MaxRegisterWord
              THEN Panicked(b.vm, PanicInvalidInstruction)
         ELSE Return([b.vm EXCEPT
                         !.registers[a.x] = Mem(b.vm.memory, Resolve(b))],
                     Ok)

(* 15: registers[a] = memory[b] *)
rmem(vm) ==
    LET a == read_instruction(vm) IN
    IF a.tag = "panic" THEN Panicked(a.vm, a.msg)
    ELSE IF a.tag = "Value" THEN Return(a.vm, ErrWriteToValue)
    ELSE LET b == read_instruction(a.vm) IN
         IF b.tag = "panic" THEN Panicked(b.vm, b.msg)
         ELSE IF Resolve(b) >= MemorySize THEN Panicked(b.vm, PanicIndex)
         ELSE Return([b.vm EXCEPT
                         !.registers[a.x] = Mem(b.vm.memory, Resolve(b))],
                     Ok)

(* Mutant: address and value exchanged. *)
wmem_Swapped(vm) ==
    LET a == read_instruction(vm) IN
    IF a.tag = "panic" THEN Panicked(a.vm, a.msg)
    ELSE LET b == read_instruction(a.vm) IN
         IF b.tag = "panic" THEN Panicked(b.vm, b.msg)
         ELSE IF Resolve(b) >= MemorySize THEN Panicked(b.vm, PanicIndex)
         ELSE Return([b.vm EXCEPT
                         !.memory = Store(@, Resolve(b), Resolve(a))],
                     Ok)

(* 16: memory[a] = b *)
wmem(vm) ==
    LET a == read_instruction(vm) IN
    IF a.tag = "panic" THEN Panicked(a.vm, a.msg)
    ELSE LET b == read_instruction(a.vm) IN
         IF b.tag = "panic" THEN Panicked(b.vm, b.msg)
         ELSE IF Resolve(a) >= MemorySize THEN Panicked(b.vm, PanicIndex)
         ELSE Return([b.vm EXCEPT
                         !.memory = Store(@, Resolve(a), Resolve(b))],
                     Ok)

(* Mutant: the address pushed is the one of the operand. *)
call_PushesOperandAddress(vm) ==
    LET a == read_instruction(vm) IN
    IF a.tag = "panic" THEN Panicked(a.vm, a.msg)
    ELSE Return([a.vm EXCEPT
                    !.stack = Append(@, vm.instruction_pointer),
                    !.instruction_pointer = Resolve(a)],
                Ok)

(* 17: push the address after the operand, jump to a *)
call(vm) ==
    LET a == read_instruction(vm) IN
    IF a.tag = "panic" THEN Panicked(a.vm, a.msg)
    ELSE Return([a.vm EXCEPT
                    !.stack = Append(@, a.vm.instruction_pointer),
                    !.instruction_pointer = Resolve(a)],
                Ok)

(* 18 *)
ret(vm) ==
    IF vm.stack = <<>> THEN Return(vm, ErrEmptyStack)
    ELSE LET n == Len(vm.stack) IN
         Return([vm EXCEPT !.stack = SubSeq(@, 1, n - 1),
                           !.instruction_pointer = vm.stack[n]], Ok)

(* Mutant: the value is written without the truncation to a byte. *)
write_NoTruncate(vm) ==
    LET a == read_instruction(vm) IN
    IF a.tag = "panic" THEN Panicked(a.vm, a.msg)
    ELSE Return([a.vm EXCEPT !.stdout = Append(@, Resolve(a))], Ok)

(* 19: `as u8`, one byte to stdout *)
write(vm) ==
    LET a == read_instruction(vm) IN
    IF a.tag = "panic" THEN Panicked(a.vm, a.msg)
    ELSE Return([a.vm EXCEPT !.stdout = Append(@, Resolve(a) % ByteRange)],
                Ok)

(* 20: read, up to the call of read_exact: the operand fetch and the      *)
(* check of the destination.  `early` is what the handler returns without *)
(* reading; otherwise it goes on to read_exact with the register a.       *)
read(vm) ==
    LET a == read_instruction(vm) IN
    IF a.tag = "panic" THEN [early |-> Panicked(a.vm, a.msg)]
    ELSE IF a.tag = "Value" THEN [early |-> Return(a.vm, ErrWriteToValue)]
    ELSE [a |-> a.x, vm |-> a.vm]

(* Mutant: at end of input the register receives 0 and the run goes on. *)
read_exact_DefaultOnEof(vm, a) ==
    IF vm.stdin = <<>>
    THEN Return([vm EXCEPT !.registers[a] = 0], Ok)
    ELSE Return([vm EXCEPT !.stdin = Tail(@),
                           !.registers[a] = Head(vm.stdin)], Ok)

(* 20: read, from read_exact on: one byte from stdin into register a, or  *)
(* the error of the end of the stream.  Called when a byte is there or    *)
(* the stream has ended.                                                  *)
read_exact(vm, a) ==
    IF vm.stdin = <<>> THEN Return(vm, ErrInput)
    ELSE Return([vm EXCEPT !.stdin = Tail(@),
                           !.registers[a] = Head(vm.stdin)], Ok)

(* 21 *)
noop(vm) == Return(vm, Ok)

(* `_ => Err("Invalid opcode.")` *)
invalid_opcode(vm) == Return(vm, ErrInvalidOpcode)

-----------------------------------------------------------------------------
(* The inputs: program images and the bytes typed on standard input.       *)

(* A word as the two bytes of the image file, low byte first. *)
Encode(w) == <<w % ByteRange, w \div ByteRange>>

RECURSIVE EncodeAll(_)
EncodeAll(ws) == IF ws = <<>> THEN <<>> ELSE Encode(Head(ws)) \o EncodeAll(Tail(ws))

(* Words tried in opcode position: every opcode, the first undefined one,  *)
(* the largest literal, register words and words that decode to nothing.   *)
OpWords == (0..22) \cup {32767, 32768, 32769, 32775, 32776, 65535}

(* Words tried in operand position. *)
OperandWords == {0, 5, 32767, 32768, 32769, 40000}

(* Fragments run before the instruction under study: nothing; register 1   *)
(* loaded with a 16-bit word kept in the image (jmp over it, then rmem);   *)
(* a value pushed; a word written to memory.                               *)
BigWords == {40000, 65535}
Preload(v) == <<6, 3, v, 15, 32769, 2>>
Prefixes ==
    {<<>>} \cup {Preload(v) : v \in BigWords}
           \cup {<<2, 7>>, <<16, 32767, 21>>}

Windows == {<<op, a, b, c>> : op \in OpWords, a \in OperandWords,
                              b \in OperandWords, c \in OperandWords}

(* add or mult of two 16-bit words b and c kept in the image: jmp over     *)
(* them, rmem them into registers 1 and 2, then op r0 r1 r2.               *)
Samples16 == {0, 1, 5, 255, 256, 32767, 32768, 40000, 65535}
AluOps == {9, 10}
Alu(op, b, c) ==
    <<6, 4, b, c, 15, 32769, 2, 15, 32770, 3, op, 32768, 32769, 32770>>

(* not r0 v, then not r0 r0 *)
Samples15 == {0, 1, 5, 255, 256, 10922, 21845, 32766, 32767}
NotTwice(v) == <<14, 32768, v, 14, 32768, 32768>>

(* wmem x v, wmem y u, then rmem r0 x; and the same with the 16-bit value  *)
(* of register 1 written.                                                  *)
Addresses == {5, 8, 100, 32767}
Values == {0, 21, 32767}
RoundTrip(x, v, y, u) == <<16, x, v, 16, y, u, 15, 32768, x>>
BigRoundTrip(w, x) == Preload(w) \o <<16, x, 32769, 15, 32768, x>>

(* push 9, push a, push b, pop r0, pop r1 *)
StackWords == {0, 7, 32767, 32768}
PushPop(a, b) == <<2, 9, 2, a, 2, b, 3, 32768, 3, 32769>>

(* in r0, in r1; out a, out b *)
InTwice == <<20, 32768, 20, 32769>>
OutWords == {0, 65, 256, 321, 32767}
OutTwice(a, b) == <<19, a, 19, b>>

(* call 3, (halt), call 6, ret, ret: the second call is nested in the      *)
(* first.                                                                  *)
NestedCalls == <<17, 3, 0, 17, 6, 18, 18>>

Programs ==
    {p \o w : p \in Prefixes, w \in Windows}
    \cup {PushPop(a, b) : a \in StackWords, b \in StackWords}
    \cup {InTwice, NestedCalls}
    \cup {OutTwice(a, b) : a \in OutWords, b \in OutWords}
    \cup {Alu(op, b, c) : op \in AluOps, b \in Samples16, c \in Samples16}
    \cup {NotTwice(v) : v \in Samples15}
    \cup {RoundTrip(x, v, y, u) : x \in Addresses, v \in Values,
                                  y \in Addresses, u \in Values}
    \cup {BigRoundTrip(w, x) : w \in BigWords, x \in Addresses}

Images == {EncodeAll(p) : p \in Programs}

(* Files with a byte left over after the last whole word. *)
OddImages == {<<19>>, <<19, 0, 65>>}

InputBytes == {10, 97, 255}

-----------------------------------------------------------------------------
(* The program of main.rs *)

Init ==
    /\ memory = new.memory
    /\ registers = new.registers
    /\ stack = new.stack
    /\ instruction_pointer = new.instruction_pointer
    /\ stdin = <<>>
    /\ stdin_closed = FALSE
    /\ stdout = <<>>
    /\ pc = "new"
    /\ read_a = 0
    /\ printed = FALSE
    /\ result = Ok
    /\ panic = NoPanic
    /\ prev = Machine
    /\ written = <<>>
    /\ steps = 0

(* test.load_program("challenge.bin") *)
LoadProgram ==
    /\ pc = "new"
    /\ \E buffer \in Images \cup OddImages :
          LET l == load_program(buffer) IN
          /\ memory' = l.memory
          /\ panic' = l.panic
          /\ pc' = IF l.panic = NoPanic THEN "running" ELSE "panicked"
    /\ UNCHANGED <<registers, stack, instruction_pointer, stdin, stdin_closed,
                   stdout, read_a, printed, result, prev, written, steps>>

(* The opcode fetch of one loop iteration, and the value dispatched on. *)
Fetched == read_instruction(Machine)
(* Mutant: the loop does not look at the result of the last handler. *)
Running_IgnoresResult == pc \in {"running", "returned"} /\ steps < MaxSteps

Running == pc = "running" /\ result = Ok /\ steps < MaxSteps
Dispatch(k) == Running /\ LET f == Fetched IN f.tag # "panic" /\ f.x = k

(* The state after the handler returned r: the loop goes on while the      *)
(* result is Ok, execute_program returns it otherwise.                     *)
Apply(r) ==
    /\ memory' = r.vm.memory
    /\ registers' = r.vm.registers
    /\ stack' = r.vm.stack
    /\ instruction_pointer' = r.vm.instruction_pointer
    /\ stdin' = r.vm.stdin
    /\ stdout' = r.vm.stdout
    /\ result' = r.result
    /\ panic' = r.panic
    /\ pc' = IF r.panic # NoPanic THEN "panicked"
             ELSE IF r.result = Ok THEN "running" ELSE "returned"
    /\ prev' = Machine
    /\ steps' = steps + 1
    /\ UNCHANGED <<stdin_closed, read_a, printed>>

(* A loop iteration that is no completed wmem. *)
Step(r) == Apply(r) /\ UNCHANGED written

(* The wmem history: the address and value of a wmem that returned. *)
WrittenBy(vm, w) ==
    LET a == read_instruction(vm)
        b == read_instruction(a.vm)
    IN  IF a.tag # "panic" /\ b.tag # "panic" /\ Resolve(a) < MemorySize
        THEN [x \in DOMAIN w \cup {Resolve(a)} |->
                 IF x = Resolve(a) THEN Resolve(b) ELSE w[x]]
        ELSE w

(* read_instruction panics on the opcode word *)
FetchPanic ==
    /\ Running
    /\ Fetched.tag = "panic"
    /\ Step(Panicked(Fetched.vm, Fetched.msg))

Halt == Dispatch(0) /\ Step(halt(Fetched.vm))
Set == Dispatch(1) /\ Step(set(Fetched.vm))
Push == Dispatch(2) /\ Step(push(Fetched.vm))
Pop == Dispatch(3) /\ Step(pop(Fetched.vm))
Eq == Dispatch(4) /\ Step(eq(Fetched.vm))
Gt == Dispatch(5) /\ Step(gt(Fetched.vm))
Jmp == Dispatch(6) /\ Step(jmp(Fetched.vm))
Jt == Dispatch(7) /\ Step(jt(Fetched.vm))
Jf == Dispatch(8) /\ Step(jf(Fetched.vm))
Add == Dispatch(9) /\ Step(add(Fetched.vm))
Mult == Dispatch(10) /\ Step(mult(Fetched.vm))
Rem == Dispatch(11) /\ Step(rem(Fetched.vm))
And == Dispatch(12) /\ Step(and(Fetched.vm))
Or == Dispatch(13) /\ Step(or(Fetched.vm))
Not == Dispatch(14) /\ Step(not(Fetched.vm))
Rmem == Dispatch(15) /\ Step(rmem(Fetched.vm))
Wmem ==
    /\ Dispatch(16)
    /\ Apply(wmem(Fetched.vm))
    /\ written' = WrittenBy(Fetched.vm, written)
Call == Dispatch(17) /\ Step(call(Fetched.vm))
Ret == Dispatch(18) /\ Step(ret(Fetched.vm))
Write == Dispatch(19) /\ Step(write(Fetched.vm))

(* `in`, up to read_exact: with a register destination the handler is now *)
(* inside read_exact, the opcode and the operand fetched.                  *)
Read ==
    /\ Dispatch(20)
    /\ LET o == read(Fetched.vm) IN
       IF "early" \in DOMAIN o THEN Step(o.early)
       ELSE /\ instruction_pointer' = o.vm.instruction_pointer
            /\ read_a' = o.a
            /\ pc' = "reading"
            /\ prev' = Machine
            /\ steps' = steps + 1
            /\ UNCHANGED <<memory, registers, stack, stdin, stdin_closed,
                           stdout, printed, result, panic, written>>

(* read_exact returns once a byte is there or the stream has ended, and    *)
(* the loop iteration of the `in` ends.                                    *)
ReadExact ==
    /\ pc = "reading"
    /\ stdin # <<>> \/ stdin_closed
    /\ LET r == read_exact(Machine, read_a) IN
       /\ registers' = r.vm.registers
       /\ stdin' = r.vm.stdin
       /\ result' = r.result
       /\ pc' = IF r.result = Ok THEN "running" ELSE "returned"
    /\ read_a' = 0
    /\ UNCHANGED <<memory, stack, instruction_pointer, stdin_closed, stdout,
                   printed, panic, prev, written, steps>>

Noop == Dispatch(21) /\ Step(noop(Fetched.vm))

InvalidOpcode ==
    /\ Running
    /\ LET f == Fetched IN f.tag # "panic" /\ f.x \notin 0..21
    /\ Step(invalid_opcode(Fetched.vm))

(* println!("{:?}", result) of main, after execute_program returned. *)
PrintResult ==
    /\ pc = "returned"
    /\ ~printed
    /\ stdout' = stdout \o println(DebugResult(result))
    /\ printed' = TRUE
    /\ UNCHANGED <<memory, registers, stack, instruction_pointer, stdin,
                   stdin_closed, pc, read_a, result, panic, prev, written,
                   steps>>

(* The environment: while read_exact waits, bytes are typed on standard    *)
(* input, or the stream ends after those typed so far.                     *)
Waiting ==
    /\ pc = "reading"
    /\ ~stdin_closed

TypeByte ==
    /\ Waiting
    /\ Len(stdin) < MaxStdin
    /\ \E byte \in InputBytes : stdin' = Append(stdin, byte)
    /\ UNCHANGED <<memory, registers, stack, instruction_pointer, stdin_closed,
                   stdout, pc, read_a, printed, result, panic, prev, written,
                   steps>>

CloseStdin ==
    /\ Waiting
    /\ stdin_closed' = TRUE
    /\ UNCHANGED <<memory, registers, stack, instruction_pointer, stdin,
                   stdout, pc, read_a, printed, result, panic, prev, written,
                   steps>>

Next ==
    \/ LoadProgram
    \/ FetchPanic
    \/ Halt \/ Set \/ Push \/ Pop \/ Eq \/ Gt \/ Jmp \/ Jt \/ Jf
    \/ Add \/ Mult \/ Rem \/ And \/ Or \/ Not \/ Rmem \/ Wmem
    \/ Call \/ Ret \/ Write \/ Read \/ ReadExact \/ Noop
    \/ InvalidOpcode
    \/ PrintResult
    \/ TypeByte \/ CloseStdin

Spec == Init /\ [][Next]_vars

-----------------------------------------------------------------------------
(* What the last loop iteration did, read off the machine before it.       *)

Stepped == steps > 0
OpcodeAddressed == Stepped /\ prev.instruction_pointer < MemorySize
OpcodeWord == Mem(prev.memory, prev.instruction_pointer)
OpFetch == read_instruction(prev)
Executed(k) == Stepped /\ OpFetch.tag # "panic" /\ OpFetch.x = k
OperandA == read_instruction(OpFetch.vm)
OperandB == read_instruction(OperandA.vm)
OperandC == read_instruction(OperandB.vm)

WriteDestinationOps == {1, 3, 4, 5, 9, 10, 11, 12, 13, 14, 15}
OperandOps == (1..17) \cup {19, 20}
RegisterIndexes == 0..(NumRegisters - 1)

-----------------------------------------------------------------------------
(* C1 (as claimed): when the word 0 is fetched as the opcode,              *)
(* execute_program stops and returns Ok, the success outcome.  The code    *)
(* returns Err("Halting execution.").                                      *)
C1_HaltReturnsOk ==
    (OpcodeAddressed /\ OpcodeWord = 0) => (pc = "returned" /\ result = Ok)

(* C2 (as claimed): dispatch keys on the raw word: every opcode word       *)
(* outside 0..21 ends the run with the invalid-opcode error and runs no    *)
(* handler.  The code dispatches on the decoded value, so 32768..32775 run *)
(* the handlers 0..7, and a word above 32775 panics.                       *)
C2_RawWordDispatch ==
    (OpcodeAddressed /\ OpcodeWord \notin 0..21)
    => /\ pc = "returned"
       /\ result = ErrInvalidOpcode
       /\ registers = prev.registers
       /\ memory = prev.memory
       /\ stack = prev.stack
       /\ printed \/ stdout = prev.stdout

(* C3 (as claimed): in every reachable state each register holds a value   *)
(* in 0..32767.                                                            *)
C3_RegistersWithin15Bits ==
    \A i \in RegisterIndexes : registers[i] \in 0..MaxValue

(* C3 (amended): every register holds a 16-bit value, and a loop iteration *)
(* that starts with every register and stack entry in 0..32767 ends with   *)
(* every register in 0..32767, unless it is an rmem that reads a memory    *)
(* word above 32767.                                                       *)
Within15Bits(vm) ==
    /\ \A i \in RegisterIndexes : vm.registers[i] <= MaxValue
    /\ \A k \in 1..Len(vm.stack) : vm.stack[k] <= MaxValue
ReadsWideWord ==
    /\ Executed(15)
    /\ OperandA.tag = "Register"
    /\ OperandB.tag # "panic"
    /\ Resolve(OperandB) < MemorySize
    /\ Mem(prev.memory, Resolve(OperandB)) > MaxValue
C3_RegistersStayWithin15Bits ==
    /\ \A i \in RegisterIndexes : registers[i] \in 0..(U16 - 1)
    /\ (Stepped /\ Within15Bits(prev) /\ ~ReadsWideWord)
       => \A i \in RegisterIndexes : registers[i] \in 0..MaxValue
C3_Witness ==
    /\ Executed(10)
    /\ Within15Bits(prev)
    /\ pc = "running"
    /\ Resolve(OperandB) = 5
    /\ Resolve(OperandC) = 32767
    /\ registers[0] = 32763

(* C4 (as claimed): pop and ret on an empty stack always fail with the     *)
(* empty-stack error, leave the registers as they were and leave the       *)
(* instruction pointer where the fetches put it.                           *)
AfterFetches == prev.instruction_pointer + (IF Executed(18) THEN 1 ELSE 2)
C4_EmptyStackAlwaysUnderflow ==
    (prev.stack = <<>> /\ (Executed(3) \/ Executed(18)))
    => /\ pc = "returned"
       /\ result = ErrEmptyStack
       /\ registers = prev.registers
       /\ instruction_pointer = AfterFetches

(* C4 (amended): ret, and pop whose destination decodes as a register, on  *)
(* an empty stack fail with the empty-stack error; registers, memory and   *)
(* stack are unchanged and the instruction pointer is just past the words  *)
(* fetched (pop with a literal destination fails with the                  *)
(* write-to-a-value error before the stack is looked at).                  *)
C4_EmptyStackUnderflow ==
    (prev.stack = <<>>
     /\ (Executed(18) \/ (Executed(3) /\ OperandA.tag = "Register")))
    => /\ pc = "returned"
       /\ result = ErrEmptyStack
       /\ registers = prev.registers
       /\ memory = prev.memory
       /\ stack = <<>>
       /\ instruction_pointer = AfterFetches
C4_Witness ==
    /\ Executed(3)
    /\ OperandA.tag = "Register"
    /\ prev.stack = <<>>
    /\ result = ErrEmptyStack
    /\ instruction_pointer = prev.instruction_pointer + 2

(* C5: a write-destination opcode (set, pop, eq, gt, add, mult, mod, and,  *)
(* or, not, rmem) whose first operand decodes as a literal fails with the  *)
(* write-to-a-value error, and registers, memory and stack are as before   *)
(* the instruction.                                                        *)
C5_LiteralDestinationFails ==
    (\E k \in WriteDestinationOps : Executed(k) /\ OperandA.tag = "Value")
    => /\ pc = "returned"
       /\ result = ErrWriteToValue
       /\ registers = prev.registers
       /\ memory = prev.memory
       /\ stack = prev.stack
C5_Witness ==
    /\ Executed(3)
    /\ OperandA.tag = "Value"
    /\ prev.stack # <<>>
    /\ stack = prev.stack
    /\ result = ErrWriteToValue

(* C6 (as claimed): a fetched word above 32775, as the opcode or as the    *)
(* first operand, ends the run with an error that execute_program returns  *)
(* to its caller.  The code panics: nothing is returned.                   *)
C6_InvalidWordIsReturned ==
    (\/ OpcodeAddressed /\ OpcodeWord > MaxRegisterWord
     \/ /\ \E k \in OperandOps : Executed(k)
        /\ OpFetch.vm.instruction_pointer < MemorySize
        /\ Mem(prev.memory, OpFetch.vm.instruction_pointer) > MaxRegisterWord)
    => (pc = "returned" /\ result \notin {Ok, ErrHalt})

(* C7: the decoder classifies the word alone: a word w in 0..32767 is the  *)
(* literal w, a word in 32768..32775 is the register w - 32768, and        *)
(* registers, memory and stack are not changed by the fetch.  Checked on   *)
(* every word of the memory, and on the operand of every push executed.    *)
DecodedAt(a) == read_instruction([Machine EXCEPT !.instruction_pointer = a])
C7_DecoderClassifies ==
    /\ \A a \in DOMAIN memory \cup ({instruction_pointer} \cap (0..MaxValue)) :
          LET w == Mem(memory, a)
              f == DecodedAt(a)
          IN  /\ w <= MaxValue => (f.tag = "Value" /\ f.x = w)
              /\ (w > MaxValue /\ w <= MaxRegisterWord)
                    => (f.tag = "Register" /\ f.x = w - 32768)
              /\ f.vm.registers = registers
              /\ f.vm.memory = memory
              /\ f.vm.stack = stack
    /\ (Executed(2) /\ OpFetch.vm.instruction_pointer < MemorySize)
       => LET w == Mem(prev.memory, OpFetch.vm.instruction_pointer) IN
          w <= MaxRegisterWord
          => /\ pc = "running"
             /\ stack = Append(prev.stack,
                               IF w <= MaxValue THEN w
                               ELSE prev.registers[w - 32768])
             /\ registers = prev.registers
             /\ memory = prev.memory
C7_Witness ==
    /\ Executed(2)
    /\ Mem(prev.memory, OpFetch.vm.instruction_pointer) = 32769
    /\ prev.registers[1] = 40000
    /\ stack = <<40000>>

(* C8: add writes (b + c) mod 32768 and mult writes (b * c) mod 32768,     *)
(* taken over the integers, for all 16-bit b and c; the result is in       *)
(* 0..32767 and is the same with b and c exchanged.  (b * c) mod 32768 is  *)
(* written as the product of the residues, which stays within 32 bits.)    *)
SumMod(b, c) == (b + c) % 32768
ProductMod(b, c) == ((b % 32768) * (c % 32768)) % 32768
C8_AddMultModulo ==
    ((Executed(9) \/ Executed(10))
     /\ OperandA.tag = "Register"
     /\ OperandB.tag # "panic"
     /\ OperandC.tag # "panic")
    => LET b == Resolve(OperandB)
           c == Resolve(OperandC)
           r == registers[OperandA.x]
       IN  /\ pc = "running"
           /\ r \in 0..MaxValue
           /\ Executed(9) => (r = SumMod(b, c) /\ r = AddValue(c, b))
           /\ Executed(10) => (r = ProductMod(b, c) /\ r = MultValue(c, b))
C8_Witness ==
    /\ Executed(10)
    /\ OperandA.tag = "Register"
    /\ OperandB.tag = "Register"
    /\ OperandC.tag = "Register"
    /\ Resolve(OperandB) = 65535
    /\ Resolve(OperandC) = 40000
    /\ registers[OperandA.x] = 25536

(* C9: not is an involution on 0..32767: not of v is the 15-bit complement *)
(* 32767 - v, not of that is v again, not(0) = 32767 and not(32767) = 0.   *)
(* Checked on every not executed, and on the program `not r0 v; not r0 r0` *)
(* after its two instructions.                                             *)
NotTwiceLoaded ==
    /\ Mem(memory, 0) = 14 /\ Mem(memory, 1) = 32768
    /\ Mem(memory, 2) <= MaxValue
    /\ Mem(memory, 3) = 14 /\ Mem(memory, 4) = 32768 /\ Mem(memory, 5) = 32768
C9_NotInvolution ==
    /\ (Executed(14)
        /\ OperandA.tag = "Register"
        /\ OperandB.tag # "panic"
        /\ Resolve(OperandB) <= MaxValue)
       => LET v == Resolve(OperandB)
              r == registers[OperandA.x]
          IN  /\ pc = "running"
              /\ r = MaxValue - v
              /\ NotValue(r) = v
              /\ v = 0 => r = 32767
              /\ v = 32767 => r = 0
    /\ (NotTwiceLoaded /\ steps = 2) => registers[0] = Mem(memory, 2)
C9_Witness ==
    /\ NotTwiceLoaded
    /\ steps = 2
    /\ Mem(memory, 2) = 21845
    /\ prev.registers[0] = 10922
    /\ registers[0] = 21845

(* C10: after any wmem writes, memory holds at each written address the    *)
(* value last written there, and an rmem of such an address stores exactly *)
(* that value in its destination register.                                 *)
C10_WmemRmemRoundTrip ==
    /\ \A x \in DOMAIN written : Mem(memory, x) = written[x]
    /\ (Executed(15)
        /\ OperandA.tag = "Register"
        /\ OperandB.tag # "panic"
        /\ Resolve(OperandB) \in DOMAIN written)
       => /\ pc = "running"
          /\ registers[OperandA.x] = written[Resolve(OperandB)]
C10_Witness ==
    /\ Executed(15)
    /\ OperandA.tag = "Register"
    /\ Resolve(OperandB) = 100
    /\ DOMAIN written = {100, 32767}
    /\ written[100] = 21
    /\ registers[OperandA.x] = 21

(* C11: the stack is last-in first-out.  A push appends the resolved value *)
(* on top and leaves the entries below as they were; a pop into a register *)
(* stores the top entry in that register and leaves the entries below as   *)
(* they were.  On the program `push 9; push a; push b; pop r0; pop r1`,    *)
(* r0 receives b, r1 receives a, and the stack is <<9>> again, as it was   *)
(* before the two pushes.                                                  *)
PushPopLoaded ==
    /\ Mem(memory, 0) = 2 /\ Mem(memory, 1) = 9
    /\ Mem(memory, 2) = 2 /\ Mem(memory, 4) = 2
    /\ Mem(memory, 6) = 3 /\ Mem(memory, 7) = 32768
    /\ Mem(memory, 8) = 3 /\ Mem(memory, 9) = 32769
Pushed(w) == IF w <= MaxValue THEN w ELSE 0
C11_StackIsLifo ==
    /\ (Executed(2) /\ OperandA.tag # "panic")
       => /\ pc = "running"
          /\ stack = Append(prev.stack, Resolve(OperandA))
    /\ (Executed(3) /\ OperandA.tag = "Register" /\ prev.stack # <<>>)
       => /\ pc = "running"
          /\ Append(stack, registers[OperandA.x]) = prev.stack
    /\ (PushPopLoaded /\ steps = 4)
       => /\ registers[0] = Pushed(Mem(memory, 5))
          /\ stack = <<9, Pushed(Mem(memory, 3))>>
    /\ (PushPopLoaded /\ steps = 5)
       => /\ registers[0] = Pushed(Mem(memory, 5))
          /\ registers[1] = Pushed(Mem(memory, 3))
          /\ stack = <<9>>
C11_Witness ==
    /\ PushPopLoaded
    /\ steps = 5
    /\ Executed(3)
    /\ prev.stack = <<9, 7>>
    /\ registers[0] = 32767
    /\ registers[1] = 7
    /\ stack = <<9>>

(* C12: an `in` with a register destination takes exactly the first byte *)
(* of the input, stores its value (0..255) in that register, changes no    *)
(* other register and goes on; at the end of the input it ends the run     *)
(* with the input-read error and writes no register.  Until the read       *)
(* returns, no register is written and no byte is taken.                   *)
ReadReturns == pc = "reading" /\ pc' # "reading"
C12_InConsumesOneByte ==
    [][/\ ReadReturns =>
            IF stdin # <<>>
            THEN /\ stdin' = Tail(stdin)
                 /\ Head(stdin) \in 0..(ByteRange - 1)
                 /\ registers' = [registers EXCEPT ![read_a] = Head(stdin)]
                 /\ pc' = "running"
                 /\ result' = Ok
            ELSE /\ stdin' = <<>>
                 /\ registers' = registers
                 /\ pc' = "returned"
                 /\ result' = ErrInput
       /\ pc' = "reading" =>
            /\ registers' = registers
            /\ SubSeq(stdin', 1, Len(stdin)) = stdin]_vars
C12_Witness ==
    /\ Mem(memory, 0) = 20 /\ Mem(memory, 2) = 20
    /\ steps = 2
    /\ Executed(20)
    /\ prev.stdin = <<>>
    /\ prev.registers[0] = 97
    /\ registers = prev.registers
    /\ pc = "returned"
    /\ result = ErrInput

(* C13: an executed `out` appends exactly one byte, resolve(a) mod 256, to *)
(* the output and changes no register, memory cell or stack entry; no      *)
(* other instruction writes output, so the output of execute_program is    *)
(* the bytes of the outs in execution order (main prints the result after  *)
(* them).  On the program `out a; out b` the output is                     *)
(* <<a mod 256, b mod 256>>.                                               *)
OutTwiceLoaded ==
    /\ Mem(memory, 0) = 19 /\ Mem(memory, 1) <= MaxValue
    /\ Mem(memory, 2) = 19 /\ Mem(memory, 3) <= MaxValue
C13_OutAppendsOneByte ==
    /\ (Executed(19) /\ OperandA.tag # "panic")
       => /\ pc = "running"
          /\ stdout = Append(prev.stdout, Resolve(OperandA) % 256)
          /\ registers = prev.registers
          /\ memory = prev.memory
          /\ stack = prev.stack
    /\ (Stepped /\ ~Executed(19) /\ ~printed) => stdout = prev.stdout
    /\ (OutTwiceLoaded /\ steps = 2)
       => stdout = <<Mem(memory, 1) % 256, Mem(memory, 3) % 256>>
C13_Witness ==
    /\ OutTwiceLoaded
    /\ steps = 2
    /\ Mem(memory, 1) = 321
    /\ Mem(memory, 3) = 32767
    /\ stdout = <<65, 255>>

(* C14: a terminal state is absorbing.  Whenever a handler has returned    *)
(* halt or an error the run is over, and from then on there is no further  *)
(* fetch: memory, registers, stack, instruction pointer, input and the     *)
(* result never change again.                                              *)
Terminal == pc = "returned"
C14_TerminalIsAbsorbing ==
    /\ [](result # Ok => Terminal)
    /\ [][Terminal =>
            /\ pc' = "returned"
            /\ result' = result
            /\ memory' = memory
            /\ registers' = registers
            /\ stack' = stack
            /\ instruction_pointer' = instruction_pointer
            /\ stdin' = stdin
            /\ steps' = steps]_vars
C14_Witness ==
    /\ Terminal
    /\ result = ErrEmptyStack
    /\ steps = 2
    /\ steps < MaxSteps
    /\ instruction_pointer < MemorySize
    /\ Mem(memory, instruction_pointer) \in 1..21

(* C15: after an instruction at address p that executed successfully, the  *)
(* instruction pointer is: resolve(a) for jmp; resolve(b) for jt exactly   *)
(* when resolve(a) is non-zero and for jf exactly when resolve(a) is zero, *)
(* and p + 3 otherwise; p + 1 + k for every other opcode of k operands     *)
(* (call and ret are the subject of C16).                                  *)
Arity(k) ==
    CASE k \in {0, 18, 21} -> 0
      [] k \in {2, 3, 6, 17, 19, 20} -> 1
      [] k \in {1, 7, 8, 14, 15, 16} -> 2
      [] k \in {4, 5, 9, 10, 11, 12, 13} -> 3
Succeeded == Stepped /\ pc = "running" /\ OpFetch.tag # "panic"
C15_InstructionPointerRule ==
    Succeeded =>
       LET p == prev.instruction_pointer
           k == OpFetch.x
       IN  /\ k = 6 => instruction_pointer = Resolve(OperandA)
           /\ k = 7 => instruction_pointer =
                          IF Resolve(OperandA) # 0 THEN Resolve(OperandB)
                          ELSE p + 3
           /\ k = 8 => instruction_pointer =
                          IF Resolve(OperandA) = 0 THEN Resolve(OperandB)
                          ELSE p + 3
           /\ k \notin {6, 7, 8, 17, 18}
                 => instruction_pointer = p + 1 + Arity(k)
C15_Witness ==
    /\ Succeeded
    /\ OpFetch.x = 7
    /\ prev.instruction_pointer = 6
    /\ OperandA.tag = "Register"
    /\ Resolve(OperandA) = 40000
    /\ Resolve(OperandB) = 5
    /\ instruction_pointer = 5

(* C16: a call at address p pushes p + 2 and sets the instruction pointer  *)
(* to resolve(a); a ret on a non-empty stack sets the instruction pointer  *)
(* to the top entry and removes exactly that entry.  On the program        *)
(* `0: call 3; 2: halt; 3: call 6; 5: ret; 6: ret` the inner ret returns   *)
(* to 5 and the outer one to 2, the reverse of the order of the calls.     *)
NestedCallsLoaded ==
    /\ Mem(memory, 0) = 17 /\ Mem(memory, 1) = 3 /\ Mem(memory, 2) = 0
    /\ Mem(memory, 3) = 17 /\ Mem(memory, 4) = 6
    /\ Mem(memory, 5) = 18 /\ Mem(memory, 6) = 18
C16_CallRetPairing ==
    /\ (Executed(17) /\ OperandA.tag # "panic")
       => /\ pc = "running"
          /\ stack = Append(prev.stack, prev.instruction_pointer + 2)
          /\ instruction_pointer = Resolve(OperandA)
    /\ (Executed(18) /\ prev.stack # <<>>)
       => /\ pc = "running"
          /\ Append(stack, instruction_pointer) = prev.stack
    /\ NestedCallsLoaded
       => /\ steps = 1 => (instruction_pointer = 3 /\ stack = <<2>>)
          /\ steps = 2 => (instruction_pointer = 6 /\ stack = <<2, 5>>)
          /\ steps = 3 => (instruction_pointer = 5 /\ stack = <<2>>)
          /\ steps = 4 => (instruction_pointer = 2 /\ stack = <<>>)
C16_Witness ==
    /\ NestedCallsLoaded
    /\ steps = 4
    /\ Executed(18)
    /\ prev.instruction_pointer = 5
    /\ prev.stack = <<2>>
    /\ instruction_pointer = 2
    /\ stack = <<>>

(* C17: the frame of a loop iteration.  A memory cell changes only in a    *)
(* wmem, and then only the cell at resolve(a); a register changes only in  *)
(* set, pop, eq, gt, add, mult, mod, and, or, not, rmem or in, and then    *)
(* only the register named by operand a; the stack changes only in push,   *)
(* pop, call or ret; halt, noop, jmp, jt, jf and out change none of them.  *)
RegisterWriters == {1, 3, 4, 5, 9, 10, 11, 12, 13, 14, 15, 20}
StackWriters == {2, 3, 17, 18}
NoWriters == {0, 6, 7, 8, 19, 21}
C17_FrameRule ==
    Stepped =>
       /\ memory # prev.memory
          => /\ Executed(16)
             /\ \A x \in (DOMAIN memory \cup DOMAIN prev.memory)
                           \ {Resolve(OperandA)} :
                   Mem(memory, x) = Mem(prev.memory, x)
       /\ registers # prev.registers
          => /\ \E k \in RegisterWriters : Executed(k)
             /\ OperandA.tag = "Register"
             /\ \A i \in RegisterIndexes \ {OperandA.x} :
                   registers[i] = prev.registers[i]
       /\ stack # prev.stack => \E k \in StackWriters : Executed(k)
       /\ (\E k \in NoWriters : Executed(k))
          => /\ memory = prev.memory
             /\ registers = prev.registers
             /\ stack = prev.stack
C17_Witness ==
    /\ Executed(3)
    /\ OperandA.tag = "Register"
    /\ OperandA.x = 0
    /\ prev.stack = <<7>>
    /\ prev.registers[0] = 0
    /\ registers = [prev.registers EXCEPT ![0] = 7]
    /\ stack = <<>>
    /\ memory = prev.memory

(* C18: the validity of a memory word is checked only when it is fetched.  *)
(* Loading an image that holds a word above 32775 does not fail; an rmem   *)
(* that reads such a word stores it in its register and goes on; a wmem    *)
(* that stores such a word goes on; and the run fails on an invalid word   *)
(* only in the iteration that fetched it: the word is the one just before  *)
(* the instruction pointer, among the words of that instruction.           *)
HoldsInvalidWord(m) == \E x \in DOMAIN m : m[x] > 32775
C18_ValidityCheckedOnFetch ==
    /\ (pc # "new" /\ steps = 0 /\ HoldsInvalidWord(memory))
       => (pc = "running" /\ result = Ok /\ panic = NoPanic)
    /\ (Executed(15)
        /\ OperandA.tag = "Register"
        /\ OperandB.tag # "panic"
        /\ Resolve(OperandB) < MemorySize
        /\ Mem(prev.memory, Resolve(OperandB)) > 32775)
       => /\ pc = "running"
          /\ registers[OperandA.x] = Mem(prev.memory, Resolve(OperandB))
    /\ (Executed(16)
        /\ OperandA.tag # "panic"
        /\ OperandB.tag # "panic"
        /\ Resolve(OperandA) < MemorySize
        /\ Resolve(OperandB) > 32775)
       => /\ pc = "running"
          /\ Mem(memory, Resolve(OperandA)) = Resolve(OperandB)
    /\ panic = PanicInvalidInstruction
       => /\ Stepped
          /\ memory = prev.memory
          /\ instruction_pointer - 1 \in
                prev.instruction_pointer..(prev.instruction_pointer + 3)
          /\ Mem(memory, instruction_pointer - 1) > 32775
C18_Witness ==
    /\ Executed(15)
    /\ steps = 4
    /\ pc = "running"
    /\ Resolve(OperandB) \in DOMAIN written
    /\ written[Resolve(OperandB)] = 65535
    /\ registers[0] = 65535
    /\ registers[1] = 65535
    /\ Mem(memory, 2) = 65535

(* C19 (as claimed): a mod whose divisor resolves to 0 ends the run with   *)
(* an error returned to the caller and leaves the registers unchanged; for *)
(* a non-zero divisor c the register receives resolve(b) mod c.  The code  *)
(* takes b.wrapping_rem(c), which panics on c = 0: nothing is returned.    *)
ModOperandsFetched ==
    /\ Executed(11)
    /\ OperandA.tag = "Register"
    /\ OperandB.tag # "panic"
    /\ OperandC.tag # "panic"
C19_ModByZeroIsReturned ==
    ModOperandsFetched
    => IF Resolve(OperandC) = 0
       THEN /\ pc = "returned"
            /\ result \notin {Ok, ErrHalt}
            /\ registers = prev.registers
       ELSE /\ pc = "running"
            /\ registers[OperandA.x] = Resolve(OperandB) % Resolve(OperandC)

(* C20 (as claimed): every memory index used is inside 0..32767: the       *)
(* instruction pointer of a running machine is at most 32767, the address  *)
(* of an rmem or wmem is at most 32767, and no access is out of the        *)
(* memory.  The code lets the pointer run to 32768 after the word at       *)
(* 32767, lets jumps, call and ret set it to any 16-bit value, and indexes *)
(* memory with whatever address rmem and wmem resolve.                     *)
C20_IndexesInRange ==
    /\ pc = "running" => instruction_pointer <= 32767
    /\ (Executed(15) /\ OperandA.tag = "Register" /\ OperandB.tag # "panic")
       => Resolve(OperandB) <= 32767
    /\ (Executed(16) /\ OperandA.tag # "panic" /\ OperandB.tag # "panic")
       => Resolve(OperandA) <= 32767
    /\ Stepped => panic # PanicIndex

====
